---- MODULE Spec2Model ----
(***************************************************************************)
(* AgriTech-AI: the conversation log (database.ChatManager), the file      *)
(* registry (database.FileDBManager), the context budgeting routines       *)
(* (KnowledgeManager.format_messages, _reduce_tokens_below_limit) and the  *)
(* chat turn (AIResponder.generate_response behind the Telegram handler).  *)
(*                                                                         *)
(* Specifications:                                                         *)
(*   Spec             chat turns; the two SQL statements of add_message    *)
(*                    (SELECT last, INSERT) interleave freely              *)
(*   SpecSingleWriter the same turns, add_message calls on one namespace   *)
(*                    never overlapping                                    *)
(*   SpecFiles        FileDBManager calls, one at a time                   *)
(*   SpecFilesRace    concurrent add_file callers; the existence check and *)
(*                    the insert are separate statements                   *)
(*   SpecBudget       format_messages and _reduce_tokens_below_limit on    *)
(*                    bounded inputs                                       *)
(***************************************************************************)
EXTENDS Integers, Sequences, FiniteSets, TLC

\* ------------------------------------------------------------ bounds ----
MaxTurns == 2
MaxFiles == 2
MaxAdders == 2
MaxHistory == 3
MaxDocs == 4
MaxCost == 2
MaxLimit == 5
MaxDeficit == 2
MaxId == 4

Turns == 1 .. MaxTurns
Adders == 1 .. MaxAdders

\* ------------------------------------------------------- input domains --
Namespaces == {"u1", "u2"}
HumanTexts == {"hi"}
AiTexts == {"hello", "yes"}
DocTexts == {"d1", "d2"}
\* what Retriever.search may hand back (most relevant first)
RetrievedDocs == {<<>>, <<"d1", "d2">>}

\* ------------------------------------------------- program constants ----
ai_name == "AgritechAI"
conversattion_limit == 800
docs_limit == 3000
Apology == "Sorry, I couldn't process that."
NoDownload == "Sorry, I couldn't download the voice message."
NotUnderstood == "Sorry, I couldn't understand the voice message."

\* transcription.get("text", ""): a transcript, possibly the empty text
Transcripts == {"hi", ""}

\* the (human, assistant) pairs the histories given to format_messages
\* are made of
HistoryPairs == {<<"hi", "hello">>, <<"rain?", "yes">>}

\* every text llm.get_num_tokens is asked about
TokenTexts ==
  {"Human: " \o h : h \in HumanTexts \cup Transcripts \cup {p[1] : p \in HistoryPairs}}
    \cup {ai_name \o ": " \o a : a \in AiTexts}
    \cup DocTexts

VARIABLES
  chat_rows,   \* table ChatMessage, in insertion order
  pc,          \* per turn: where its handler stands
  turn,        \* per turn: the handler's locals
  sent,        \* per turn: the texts handed to update.message.reply_text, in order
  token_cost,  \* the external token counter: text -> cost
  files,       \* table File: the rows' columns but id, in the order of id
  file_ids,    \* table File: the rows' primary keys (column id), ascending
  last_call,   \* the latest FileDBManager call: name, arguments, outcome
  add_pc,      \* per concurrent add_file caller: where it stands
  add_local,   \* per concurrent add_file caller: file_model, outcome
  call,        \* the budgeting routine under test and its arguments
  result       \* what it returned

chat_vars == <<chat_rows, pc, turn, sent>>
file_vars == <<files, file_ids, last_call, add_pc, add_local>>
budget_vars == <<call, result>>
vars == <<chat_vars, token_cost, file_vars, budget_vars>>

\* --------------------------------------------------------- helpers ------
RECURSIVE Join(_, _)
\* Python's sep.join(parts)
Join(parts, sep) ==
  IF Len(parts) = 0 THEN ""
  ELSE IF Len(parts) = 1 THEN parts[1]
  ELSE parts[1] \o sep \o Join(Tail(parts), sep)

RECURSIVE Sum(_)
Sum(s) == IF Len(s) = 0 THEN 0 ELSE Head(s) + Sum(Tail(s))

get_num_tokens(text) == token_cost[text]

\* ------------------------------------------------ ChatManager (rows) ----
ChatMessage(namespace, ai_message, human_message, sequence_number) ==
  [namespace |-> namespace, ai_message |-> ai_message,
   human_message |-> human_message, sequence_number |-> sequence_number]

\* mutant: the WHERE clause forgotten, every row is selected
RowsOfAnyNamespace(rows, ns) == 1 .. Len(rows)

\* positions of the rows WHERE namespace == ns
RowsOf(rows, ns) == {i \in 1 .. Len(rows) : rows[i].namespace = ns}

SeqNumbersOf(rows, ns) == {rows[i].sequence_number : i \in RowsOf(rows, ns)}

MaxOf(S) == CHOOSE m \in S : \A x \in S : x <= m

\* mutant: the increment forgotten
NextSequenceNumberNoIncrement(rows, ns) ==
  IF RowsOf(rows, ns) = {} THEN 0 ELSE MaxOf(SeqNumbersOf(rows, ns))

\* mutant: the namespace filter forgotten
NextSequenceNumberAnyNamespace(rows, ns) ==
  IF Len(rows) = 0 THEN 0
  ELSE MaxOf({rows[i].sequence_number : i \in 1 .. Len(rows)}) + 1

\* add_message, first statement: SELECT ... WHERE namespace ORDER BY
\* sequence_number DESC, .first(); then 0 or last + 1
NextSequenceNumber(rows, ns) ==
  IF RowsOf(rows, ns) = {} THEN 0 ELSE MaxOf(SeqNumbersOf(rows, ns)) + 1

\* mutant: the two texts land in each other's column
CreateRowSwapped(rows, namespace, ai_message, human_message, sequence_number) ==
  Append(rows, ChatMessage(namespace, human_message, ai_message, sequence_number))

\* add_message, second statement: INSERT
CreateRow(rows, namespace, ai_message, human_message, sequence_number) ==
  Append(rows, ChatMessage(namespace, ai_message, human_message, sequence_number))

\* mutant: ORDER BY sequence_number DESC
OrderedBySequenceNumberDesc(rows, ns) ==
  LET idx == RowsOf(rows, ns)
      n == Cardinality(idx)
  IN {p \in [1 .. n -> idx] :
        /\ \A i, j \in 1 .. n : i # j => p[i] # p[j]
        /\ \A i, j \in 1 .. n :
             i < j => rows[p[i]].sequence_number >= rows[p[j]].sequence_number}

\* the orders ORDER BY sequence_number allows: ascending, rows of equal
\* number in any order
OrderedBySequenceNumber(rows, ns) ==
  LET idx == RowsOf(rows, ns)
      n == Cardinality(idx)
  IN {p \in [1 .. n -> idx] :
        /\ \A i, j \in 1 .. n : i # j => p[i] # p[j]
        /\ \A i, j \in 1 .. n :
             i < j => rows[p[i]].sequence_number <= rows[p[j]].sequence_number}

\* retrieve_all_messages: every list the query may produce
retrieve_all_messages_results(rows, ns) ==
  {[i \in 1 .. Len(p) |-> <<rows[p[i]].human_message, rows[p[i]].ai_message>>] :
     p \in OrderedBySequenceNumber(rows, ns)}

\* retrieve_all_messages when the order is determined (no tie)
retrieve_all_messages(rows, ns) ==
  CHOOSE h \in retrieve_all_messages_results(rows, ns) : TRUE

\* ------------------------------------------- KnowledgeManager ----------
RECURSIVE FormatLoopSkipsOverflow(_, _, _, _, _, _)
\* mutant: continue instead of break (an overflowing pair is skipped and
\* later pairs that fit are taken)
FormatLoopSkipsOverflow(chat_history, i, tokens_used, cleaned_msgs, tokens_limit, human_only) ==
  IF i > Len(chat_history) THEN cleaned_msgs
  ELSE
    LET human_msg_formatted == "Human: " \o chat_history[i][1]
        ai_msg_formatted == ai_name \o ": " \o chat_history[i][2]
        human_tokens == get_num_tokens(human_msg_formatted)
        ai_tokens == get_num_tokens(ai_msg_formatted)
        new_tokens_used ==
          IF ~human_only THEN tokens_used + human_tokens + ai_tokens
          ELSE tokens_used + human_tokens
    IN IF new_tokens_used > tokens_limit
       THEN FormatLoopSkipsOverflow(chat_history, i + 1, tokens_used,
                                    cleaned_msgs, tokens_limit, human_only)
       ELSE FormatLoopSkipsOverflow(chat_history, i + 1, new_tokens_used,
                       Append(cleaned_msgs,
                              IF human_only THEN human_msg_formatted
                              ELSE <<human_msg_formatted, ai_msg_formatted>>),
                       tokens_limit, human_only)

RECURSIVE FormatLoopBreaksAtLimit(_, _, _, _, _, _)
\* mutant: the break also fires when the budget is reached exactly
\* (new_tokens_used >= tokens_limit)
FormatLoopBreaksAtLimit(chat_history, i, tokens_used, cleaned_msgs, tokens_limit, human_only) ==
  IF i > Len(chat_history) THEN cleaned_msgs
  ELSE
    LET human_msg_formatted == "Human: " \o chat_history[i][1]
        ai_msg_formatted == ai_name \o ": " \o chat_history[i][2]
        human_tokens == get_num_tokens(human_msg_formatted)
        ai_tokens == get_num_tokens(ai_msg_formatted)
        new_tokens_used ==
          IF ~human_only THEN tokens_used + human_tokens + ai_tokens
          ELSE tokens_used + human_tokens
    IN IF new_tokens_used >= tokens_limit THEN cleaned_msgs
       ELSE FormatLoopBreaksAtLimit(chat_history, i + 1, new_tokens_used,
                       Append(cleaned_msgs,
                              IF human_only THEN human_msg_formatted
                              ELSE <<human_msg_formatted, ai_msg_formatted>>),
                       tokens_limit, human_only)

RECURSIVE FormatLoop(_, _, _, _, _, _)
\* the for loop of format_messages from pair i on; yields cleaned_msgs
FormatLoop(chat_history, i, tokens_used, cleaned_msgs, tokens_limit, human_only) ==
  IF i > Len(chat_history) THEN cleaned_msgs
  ELSE
    LET human_msg_formatted == "Human: " \o chat_history[i][1]
        ai_msg_formatted == ai_name \o ": " \o chat_history[i][2]
        human_tokens == get_num_tokens(human_msg_formatted)
        ai_tokens == get_num_tokens(ai_msg_formatted)
        new_tokens_used ==
          IF ~human_only THEN tokens_used + human_tokens + ai_tokens
          ELSE tokens_used + human_tokens
    IN IF new_tokens_used > tokens_limit THEN cleaned_msgs
       ELSE FormatLoop(chat_history, i + 1, new_tokens_used,
                       Append(cleaned_msgs,
                              IF human_only THEN human_msg_formatted
                              ELSE <<human_msg_formatted, ai_msg_formatted>>),
                       tokens_limit, human_only)

cleaned_msgs_of(chat_history, tokens_limit, human_only) ==
  FormatLoop(chat_history, 1, 0, <<>>, tokens_limit, human_only)

format_messages(chat_history, tokens_limit, human_only) ==
  LET cleaned_msgs == cleaned_msgs_of(chat_history, tokens_limit, human_only)
  IN IF human_only THEN Join(cleaned_msgs, "\n\n")
     ELSE Join([k \in 1 .. Len(cleaned_msgs) |->
                  cleaned_msgs[k][1] \o "\n\n" \o cleaned_msgs[k][2]], "\n\n")

\* Python list indexing tokens[i], i possibly negative; defined when InRange
InRange(xs, i) == -Len(xs) <= i /\ i < Len(xs)
PyIndex(xs, i) == IF i >= 0 THEN xs[i + 1] ELSE xs[Len(xs) + i + 1]

\* Python slice docs[:n], n possibly negative
PySliceTo(xs, n) ==
  LET stop == IF n >= 0 THEN (IF n < Len(xs) THEN n ELSE Len(xs))
              ELSE (IF Len(xs) + n > 0 THEN Len(xs) + n ELSE 0)
  IN SubSeq(xs, 1, stop)

RECURSIVE ReduceLoopKeepsOne(_, _, _, _)
\* mutant: the loop also stops at one passage left (while ... and
\* num_docs > 1)
ReduceLoopKeepsOne(tokens, num_docs, token_count, limit) ==
  IF token_count > limit /\ num_docs > 1 THEN
    IF InRange(tokens, num_docs - 1)
    THEN ReduceLoopKeepsOne(tokens, num_docs - 1,
                            token_count - PyIndex(tokens, num_docs - 1), limit)
    ELSE [raised |-> "IndexError", num_docs |-> num_docs - 1]
  ELSE [raised |-> "", num_docs |-> num_docs]

RECURSIVE ReduceLoopStrict(_, _, _, _)
\* mutant: the loop runs until the total is strictly below the budget
\* (while token_count >= docs_limit)
ReduceLoopStrict(tokens, num_docs, token_count, limit) ==
  IF token_count >= limit THEN
    IF InRange(tokens, num_docs - 1)
    THEN ReduceLoopStrict(tokens, num_docs - 1,
                          token_count - PyIndex(tokens, num_docs - 1), limit)
    ELSE [raised |-> "IndexError", num_docs |-> num_docs - 1]
  ELSE [raised |-> "", num_docs |-> num_docs]

RECURSIVE ReduceLoop(_, _, _, _)
\* the while loop of _reduce_tokens_below_limit; yields num_docs, or the
\* IndexError of tokens[num_docs]
ReduceLoop(tokens, num_docs, token_count, limit) ==
  IF token_count > limit THEN
    IF InRange(tokens, num_docs - 1)
    THEN ReduceLoop(tokens, num_docs - 1,
                    token_count - PyIndex(tokens, num_docs - 1), limit)
    ELSE [raised |-> "IndexError", num_docs |-> num_docs - 1]
  ELSE [raised |-> "", num_docs |-> num_docs]

\* _reduce_tokens_below_limit: [raised, value]
_reduce_tokens_below_limit(docs, limit) ==
  LET num_docs == Len(docs)
      tokens == [k \in 1 .. Len(docs) |-> get_num_tokens(docs[k])]
      token_count == Sum(PySliceTo(tokens, num_docs))
      out == ReduceLoop(tokens, num_docs, token_count, limit)
  IN IF out.raised # "" THEN [raised |-> out.raised, value |-> <<>>]
     ELSE [raised |-> "", value |-> PySliceTo(docs, out.num_docs)]

\* KnowledgeManager.chat: the text handed to Retriever.search
combined_query(query, chat_history) ==
  format_messages(chat_history, conversattion_limit, TRUE) \o "\n"
    \o "Human: " \o query

\* KnowledgeManager.chat up to the await: what chain.arun is handed
ChainInputs(query, chat_history, docs) ==
  [question |-> query,
   conversation |-> format_messages(chat_history, conversattion_limit, FALSE),
   help_data |-> Join(_reduce_tokens_below_limit(docs, docs_limit).value, "\n\n")]

NoInputs == [question |-> "", conversation |-> "", help_data |-> ""]

\* --------------------------------------------------- the chat turn -----
\* a handler's locals before it runs
NoTurn ==
  [user_id |-> "", user_message |-> "", chain_inputs |-> NoInputs,
   ai_response |-> "", sequence_number |-> -1, raised |-> ""]

\* what is kept of a handler that has ended: the error that ended it or
\* that its except branch caught
Ended(error) == [NoTurn EXCEPT !.raised = error]

\* the frame of _generate_and_send_response in its except branch: the
\* frames of generate_response and below are unwound; ai_response is bound
\* only when generate_response has returned
HandlerFrame(user_id, user_message, ai_response, error) ==
  [NoTurn EXCEPT !.user_id = user_id, !.user_message = user_message,
                 !.ai_response = ai_response, !.raised = error]

\* await update.message.reply_text(text) as a handler's last statement, up
\* to the suspension: the text is handed over and the handler waits
Reply(t, locals, text, waiting) ==
  /\ sent' = [sent EXCEPT ![t] = Append(sent[t], text)]
  /\ turn' = [turn EXCEPT ![t] = locals]
  /\ pc' = [pc EXCEPT ![t] = waiting]

\* mutant: the except branch replies the error instead of the apology
CaughtRepliesError(t, locals) == Reply(t, locals, locals.raised, "apologising")

\* the except branch of _generate_and_send_response: the error is logged,
\* the fixed apology is handed to reply_text
Caught(t, locals) == Reply(t, locals, Apology, "apologising")

\* _generate_and_send_response up to its first await: generate_response
\* reads the history, chat() builds the model's input and awaits the model
GenerateAndSendResponse(t, user_id, user_message) ==
  LET locals == [NoTurn EXCEPT !.user_id = user_id,
                               !.user_message = user_message]
  IN \/ Caught(t, HandlerFrame(user_id, user_message, "", "retrieve_all_messages"))
     \/ \E chat_history \in retrieve_all_messages_results(chat_rows, user_id) :
          \/ Caught(t, HandlerFrame(user_id, user_message, "", "query_data"))
          \/ \E docs \in RetrievedDocs :
               IF _reduce_tokens_below_limit(docs, docs_limit).raised # ""
               THEN Caught(t, HandlerFrame(user_id, user_message, "",
                                           "_reduce_tokens_below_limit"))
               ELSE /\ pc' = [pc EXCEPT ![t] = "awaiting"]
                    /\ turn' = [turn EXCEPT ![t] =
                         [locals EXCEPT !.chain_inputs =
                            ChainInputs(user_message, chat_history, docs)]]
                    /\ sent' = sent

\* handle_update: a text message, not empty
HandleUpdate(t) ==
  /\ pc[t] = "idle"
  /\ \E user_id \in Namespaces, user_message \in HumanTexts :
       GenerateAndSendResponse(t, user_id, user_message)
  /\ UNCHANGED <<chat_rows, token_cost, file_vars, budget_vars>>

\* handle_voice: the download gives no file (its errors are caught inside
\* _download_voice), or the transcriber raises, or it gives nothing, or
\* its text, possibly empty, is answered like a text message
HandleVoice(t) ==
  /\ pc[t] = "idle"
  /\ \/ Reply(t, NoTurn, NoDownload, "declining")
     \/ /\ pc' = [pc EXCEPT ![t] = "propagated"]
        /\ turn' = [turn EXCEPT ![t] = Ended("transcribe")]
        /\ sent' = sent
     \/ Reply(t, NoTurn, NotUnderstood, "declining")
     \/ \E user_id \in Namespaces, text \in Transcripts :
          GenerateAndSendResponse(t, user_id, text)
  /\ UNCHANGED <<chat_rows, token_cost, file_vars, budget_vars>>

\* chain.arun returns: chat() returns the model's text
ModelCallReturns(t) ==
  /\ pc[t] = "awaiting"
  /\ \E res \in AiTexts :
       turn' = [turn EXCEPT ![t].ai_response = res,
                            ![t].chain_inputs = NoInputs]
  /\ pc' = [pc EXCEPT ![t] = "add_message"]
  /\ UNCHANGED <<chat_rows, sent, token_cost, file_vars, budget_vars>>

\* mutant: the turn is stored before the model has answered
ModelCallFailsAfterAppend(t) ==
  /\ pc[t] = "awaiting"
  /\ Caught(t, HandlerFrame(turn[t].user_id, turn[t].user_message, "", "chain.arun"))
  /\ chat_rows' = CreateRow(chat_rows, turn[t].user_id, "", turn[t].user_message,
                            NextSequenceNumber(chat_rows, turn[t].user_id))
  /\ UNCHANGED <<token_cost, file_vars, budget_vars>>

\* chain.arun raises
ModelCallFails(t) ==
  /\ pc[t] = "awaiting"
  /\ Caught(t, HandlerFrame(turn[t].user_id, turn[t].user_message, "", "chain.arun"))
  /\ UNCHANGED <<chat_rows, token_cost, file_vars, budget_vars>>

\* the task is cancelled while it awaits the model: CancelledError is no
\* Exception, the except branch does not run
TurnCancelled(t) ==
  /\ pc[t] = "awaiting"
  /\ pc' = [pc EXCEPT ![t] = "cancelled"]
  /\ turn' = [turn EXCEPT ![t] = Ended("CancelledError")]
  /\ UNCHANGED <<chat_rows, sent, token_cost, file_vars, budget_vars>>

\* add_message(user_id, ai_response, text), first statement
AddMessageSelect(t) ==
  /\ pc[t] = "add_message"
  /\ turn' = [turn EXCEPT ![t].sequence_number =
                NextSequenceNumber(chat_rows, turn[t].user_id)]
  /\ pc' = [pc EXCEPT ![t] = "create"]
  /\ UNCHANGED <<chat_rows, sent, token_cost, file_vars, budget_vars>>

\* add_message, second statement; generate_response returns and the
\* response is handed to reply_text, which is awaited
AddMessageCreate(t) ==
  /\ pc[t] = "create"
  /\ \/ /\ chat_rows' = CreateRow(chat_rows, turn[t].user_id, turn[t].ai_response,
                                  turn[t].user_message, turn[t].sequence_number)
        /\ pc' = [pc EXCEPT ![t] = "reply"]
        /\ sent' = [sent EXCEPT ![t] = Append(sent[t], turn[t].ai_response)]
        /\ turn' = turn
     \/ /\ Caught(t, HandlerFrame(turn[t].user_id, turn[t].user_message, "",
                                   "add_message"))
        /\ chat_rows' = chat_rows
  /\ UNCHANGED <<token_cost, file_vars, budget_vars>>

\* the awaited reply_text(ai_response) returns: the handler is done
ReplyReturns(t) ==
  /\ pc[t] = "reply"
  /\ pc' = [pc EXCEPT ![t] = "done"]
  /\ turn' = [turn EXCEPT ![t] = Ended("")]
  /\ UNCHANGED <<chat_rows, sent, token_cost, file_vars, budget_vars>>

\* the awaited reply_text(ai_response) raises inside the try: the except
\* branch runs with the pair already stored
ReplyFails(t) ==
  /\ pc[t] = "reply"
  /\ Caught(t, HandlerFrame(turn[t].user_id, turn[t].user_message,
                             turn[t].ai_response, "reply_text"))
  /\ UNCHANGED <<chat_rows, token_cost, file_vars, budget_vars>>

\* the task is cancelled while reply_text(ai_response) is awaited, the pair
\* already stored
ReplyCancelled(t) ==
  /\ pc[t] = "reply"
  /\ pc' = [pc EXCEPT ![t] = "cancelled"]
  /\ turn' = [turn EXCEPT ![t] = Ended("CancelledError")]
  /\ UNCHANGED <<chat_rows, sent, token_cost, file_vars, budget_vars>>

\* the awaited reply_text of a handler's last statement (the apology, a
\* voice notice) returns: the handler ends normally
LastReplyReturns(t) ==
  /\ pc[t] \in {"apologising", "declining"}
  /\ pc' = [pc EXCEPT ![t] = IF pc[t] = "apologising" THEN "failed" ELSE "declined"]
  /\ turn' = [turn EXCEPT ![t] = Ended(turn[t].raised)]
  /\ UNCHANGED <<chat_rows, sent, token_cost, file_vars, budget_vars>>

\* that reply_text raises, or the task is cancelled in it: nothing catches
\* the exception, it leaves the handler
LastReplyRaises(t) ==
  /\ pc[t] \in {"apologising", "declining"}
  /\ pc' = [pc EXCEPT ![t] = "propagated"]
  /\ turn' = [turn EXCEPT ![t] = Ended(turn[t].raised)]
  /\ UNCHANGED <<chat_rows, sent, token_cost, file_vars, budget_vars>>

\* no other add_message on the same namespace stands between its statements
NoOverlap(t) ==
  \A u \in Turns \ {t} :
    ~(pc[u] = "create" /\ turn[u].user_id = turn[t].user_id)

AddMessageSelectAlone(t) == NoOverlap(t) /\ AddMessageSelect(t)

\* ------------------------------------------------- FileDBManager ------
\* Optional[...] values: None, or the value wrapped
None == <<>>
Some(v) == <<v>>

Filenames == {"a.txt", "b.txt"}

FileModel(filename, filetype, vector_ids, file_content, file_bytes, description) ==
  [filename |-> filename, filetype |-> filetype, vector_ids |-> vector_ids,
   file_content |-> file_content, file_bytes |-> file_bytes,
   description |-> description]

\* the record of test_file_manager
FullFile(f) ==
  FileModel(f, Some(".txt"), <<"1", "2", "3">>, Some("text"), Some("bytes"), Some("d"))
\* the same without the raw payload
NoBytesFile(f) ==
  FileModel(f, Some(".txt"), <<"1", "2", "3">>, Some("text"), None, Some("d"))
\* only the required fields
BareFile(f) == FileModel(f, None, <<>>, None, None, None)

FileModels == UNION {{FullFile(f), NoBytesFile(f), BareFile(f)} : f \in Filenames}

\* insert_many's argument: batches of one or two records
Batches == {<<a>> : a \in FileModels} \cup {<<a, b>> : a, b \in FileModels}

\* the columns of File that FileModel carries
FileFields ==
  {"filename", "filetype", "vector_ids", "file_content", "file_bytes", "description"}

\* the columns of File: those and the primary key peewee adds (id)
FileColumns == FileFields \cup {"id"}

\* a keyword map that names fields other than filename: one is set to
\* None, one to a new value
UpdateKwargs == {[filetype |-> None, description |-> Some("new")]}

\* no keyword at all
NoKwargs == [f \in {} |-> None]

\* the keyword arguments of a call of update_file: fields to change; the
\* primary key, alone and with fields; none; a name that is no column; filename, which collides
\* with the parameter of that name
UpdateKeywords ==
  UpdateKwargs
    \cup {[id |-> 3], [id |-> 3, filetype |-> None, description |-> Some("new")],
          NoKwargs, [colour |-> Some("red")], [filename |-> "b.txt"]}

\* pydantic_to_file: the row built from a FileModel
pydantic_to_file(file_model) ==
  [filename |-> file_model.filename,
   filetype |-> file_model.filetype,
   vector_ids |-> file_model.vector_ids,
   file_content |-> file_model.file_content,
   file_bytes |-> file_model.file_bytes,
   description |-> file_model.description]

\* file_to_pydantic: bytes(file.file_bytes) raises TypeError on None
file_to_pydantic(file) ==
  IF file.file_bytes = None
  THEN [raised |-> "TypeError", value |-> None]
  ELSE [raised |-> "",
        value |-> Some(FileModel(file.filename, file.filetype, file.vector_ids,
                                 file.file_content, file.file_bytes,
                                 file.description))]

\* positions of the rows WHERE filename == name
WhereFilename(rows, name) == {i \in 1 .. Len(rows) : rows[i].filename = name}

MinOf(S) == CHOOSE m \in S : \A x \in S : m <= x

\* model.select().where(filename == name).first(): a row or None
SelectFirst(rows, name) ==
  IF WhereFilename(rows, name) = {} THEN None
  ELSE Some(rows[MinOf(WhereFilename(rows, name))])

\* file.save(force_insert=True): INSERT, no constraint on filename (line 41)
SaveRow(rows, row) == Append(rows, row)

\* the id an INSERT gives its row: one more than the largest in the table
NextId(ids) == IF Len(ids) = 0 THEN 1 ELSE ids[Len(ids)] + 1

\* the ids of the rows an INSERT of n rows leaves
SaveIds(ids, n) == ids \o [k \in 1 .. n |-> NextId(ids) + k - 1]

RECURSIVE DeleteWhere(_, _)
\* model.delete().where(filename == name): the rows left
DeleteWhere(rows, name) ==
  IF Len(rows) = 0 THEN <<>>
  ELSE IF Head(rows).filename = name THEN DeleteWhere(Tail(rows), name)
  ELSE <<Head(rows)>> \o DeleteWhere(Tail(rows), name)

\* model.delete().where(filename == name): the ids of the rows left
DeleteIdsWhere(rows, ids, name) ==
  LET kept == {i \in 1 .. Len(rows) : rows[i].filename # name}
      place(i) == Cardinality({j \in kept : j <= i})
  IN [k \in 1 .. Cardinality(kept) |-> ids[CHOOSE i \in kept : place(i) = k]]

\* mutant: the WHERE clause forgotten, every row is updated
UpdateEveryRow(rows, name, kwargs) ==
  [i \in 1 .. Len(rows) |->
     [f \in DOMAIN rows[i] |->
        IF f \in DOMAIN kwargs THEN kwargs[f] ELSE rows[i][f]]]

\* model.update(kwargs).where(filename == name): the rows after
UpdateWhere(rows, name, kwargs) ==
  [i \in 1 .. Len(rows) |->
     IF rows[i].filename = name
     THEN [f \in DOMAIN rows[i] |->
             IF f \in DOMAIN kwargs THEN kwargs[f] ELSE rows[i][f]]
     ELSE rows[i]]

\* the ids after model.update(kwargs).where(filename == name), rows in place
UpdateIdsWhere(rows, ids, name, kwargs) ==
  [i \in 1 .. Len(ids) |->
     IF rows[i].filename = name /\ "id" \in DOMAIN kwargs THEN kwargs.id
     ELSE ids[i]]

\* the primary key stays unique: no two rows with one id
UniqueIds(ids) == \A i, j \in 1 .. Len(ids) : i # j => ids[i] # ids[j]

\* the table read back: rows in the order of their ids (ids all different)
InIdOrder(xs, ids) ==
  LET place(i) == 1 + Cardinality({j \in 1 .. Len(ids) : ids[j] < ids[i]})
  IN [k \in 1 .. Len(ids) |-> xs[CHOOSE i \in 1 .. Len(ids) : place(i) = k]]

\* get_file_by_name: [raised, value]; value is None when no row matches
GetFileByName(rows, name) ==
  IF WhereFilename(rows, name) = {} THEN [raised |-> "", value |-> None]
  ELSE file_to_pydantic(rows[MinOf(WhereFilename(rows, name))])

\* get_all: [raised, value]; the conversion of any row may raise
GetAll(rows) ==
  IF \E i \in 1 .. Len(rows) : file_to_pydantic(rows[i]).raised # ""
  THEN [raised |-> "TypeError", value |-> <<>>]
  ELSE [raised |-> "",
        value |-> [i \in 1 .. Len(rows) |-> file_to_pydantic(rows[i]).value[1]]]

Called(op, args, raised, returned) ==
  [op |-> op, args |-> args, raised |-> raised, returned |-> returned]

NoCall == Called("", <<>>, "", None)

\* mutant: no existence check
add_file_unchecked(file_model) ==
  /\ Len(files) < MaxFiles
  /\ NextId(file_ids) <= MaxId
  /\ files' = SaveRow(files, pydantic_to_file(file_model))
  /\ file_ids' = SaveIds(file_ids, 1)
  /\ LET back == file_to_pydantic(pydantic_to_file(file_model))
     IN last_call' = Called("add_file", <<file_model>>, back.raised,
                            IF back.raised = "" THEN Some(back.value[1])
                            ELSE None)
  /\ UNCHANGED <<add_pc, add_local, chat_vars, token_cost, budget_vars>>

\* add_file: the existence check, the insert, the record converted back
add_file(file_model) ==
  /\ IF SelectFirst(files, file_model.filename) # None
     THEN /\ files' = files
          /\ file_ids' = file_ids
          /\ last_call' = Called("add_file", <<file_model>>,
                                 "ValueError: File already exists", None)
     ELSE /\ Len(files) < MaxFiles
          /\ NextId(file_ids) <= MaxId
          /\ files' = SaveRow(files, pydantic_to_file(file_model))
          /\ file_ids' = SaveIds(file_ids, 1)
          /\ LET back == file_to_pydantic(pydantic_to_file(file_model))
             IN last_call' = Called("add_file", <<file_model>>, back.raised,
                                    IF back.raised = "" THEN Some(back.value[1])
                                    ELSE None)
  /\ UNCHANGED <<add_pc, add_local, chat_vars, token_cost, budget_vars>>

get_file_by_name(filename) ==
  /\ LET got == GetFileByName(files, filename)
     IN last_call' = Called("get_file_by_name", <<filename>>, got.raised,
                            IF got.raised = "" THEN Some(got.value) ELSE None)
  /\ UNCHANGED <<files, file_ids, add_pc, add_local, chat_vars, token_cost, budget_vars>>

\* delete_file: get_file_by_name first; its TypeError propagates
delete_file(filename) ==
  /\ LET file == GetFileByName(files, filename)
     IN IF file.raised # ""
        THEN /\ files' = files
             /\ file_ids' = file_ids
             /\ last_call' = Called("delete_file", <<filename>>, file.raised, None)
        ELSE IF file.value = None
        THEN /\ files' = files
             /\ file_ids' = file_ids
             /\ last_call' = Called("delete_file", <<filename>>,
                                    "ValueError: Invalid collection/file", None)
        ELSE /\ files' = DeleteWhere(files, filename)
             /\ file_ids' = DeleteIdsWhere(files, file_ids, filename)
             /\ last_call' = Called("delete_file", <<filename>>, "",
                                    Some(Cardinality(WhereFilename(files, filename))))
  /\ UNCHANGED <<add_pc, add_local, chat_vars, token_cost, budget_vars>>

\* mutant: the delete is limited to the first row
delete_all_first_row ==
  /\ files' = (IF files = <<>> THEN <<>> ELSE Tail(files))
  /\ file_ids' = (IF file_ids = <<>> THEN <<>> ELSE Tail(file_ids))
  /\ last_call' = Called("delete_all", <<>>, "",
                         Some(IF files = <<>> THEN 0 ELSE 1))
  /\ UNCHANGED <<add_pc, add_local, chat_vars, token_cost, budget_vars>>

delete_all ==
  /\ files' = <<>>
  /\ file_ids' = <<>>
  /\ last_call' = Called("delete_all", <<>>, "", Some(Len(files)))
  /\ UNCHANGED <<add_pc, add_local, chat_vars, token_cost, budget_vars>>

get_all ==
  /\ LET got == GetAll(files)
     IN last_call' = Called("get_all", <<>>, got.raised,
                            IF got.raised = "" THEN Some(got.value) ELSE None)
  /\ UNCHANGED <<files, file_ids, add_pc, add_local, chat_vars, token_cost, budget_vars>>

\* insert_many: bulk_create of the converted rows, no existence check
insert_many(rows) ==
  /\ Len(files) + Len(rows) <= MaxFiles
  /\ NextId(file_ids) + Len(rows) - 1 <= MaxId
  /\ files' = files \o [i \in 1 .. Len(rows) |-> pydantic_to_file(rows[i])]
  /\ file_ids' = SaveIds(file_ids, Len(rows))
  /\ last_call' = Called("insert_many", <<rows>>, "", None)
  /\ UNCHANGED <<add_pc, add_local, chat_vars, token_cost, budget_vars>>

\* update_file: a keyword named filename is a TypeError at the call (the
\* parameter is bound twice); model.update(kwargs) raises ValueError for a
\* name that is no column; without any keyword the UPDATE has an empty SET
\* and the database refuses it; otherwise one UPDATE ... WHERE filename,
\* which the database refuses as a whole when it would leave two rows with
\* one id
update_file(filename, kwargs) ==
  /\ IF "filename" \in DOMAIN kwargs
     THEN /\ files' = files
          /\ file_ids' = file_ids
          /\ last_call' = Called("update_file", <<filename, kwargs>>, "TypeError", None)
     ELSE IF DOMAIN kwargs \ FileColumns # {}
     THEN /\ files' = files
          /\ file_ids' = file_ids
          /\ last_call' = Called("update_file", <<filename, kwargs>>,
                                 "ValueError: Unrecognized field name", None)
     ELSE IF DOMAIN kwargs = {}
     THEN /\ files' = files
          /\ file_ids' = file_ids
          /\ last_call' = Called("update_file", <<filename, kwargs>>,
                                 "OperationalError", None)
     ELSE IF ~UniqueIds(UpdateIdsWhere(files, file_ids, filename, kwargs))
     THEN /\ files' = files
          /\ file_ids' = file_ids
          /\ last_call' = Called("update_file", <<filename, kwargs>>,
                                 "IntegrityError", None)
     ELSE LET ids == UpdateIdsWhere(files, file_ids, filename, kwargs)
          IN /\ files' = InIdOrder(UpdateWhere(files, filename, kwargs), ids)
             /\ file_ids' = InIdOrder(ids, ids)
             /\ last_call' = Called("update_file", <<filename, kwargs>>, "",
                                    Some(Cardinality(WhereFilename(files, filename))))
  /\ UNCHANGED <<add_pc, add_local, chat_vars, token_cost, budget_vars>>

\* concurrent add_file, first statement: the existence check
AddFileSelect(c) ==
  /\ add_pc[c] = "idle"
  /\ \E file_model \in FileModels :
       IF SelectFirst(files, file_model.filename) # None
       THEN /\ add_pc' = [add_pc EXCEPT ![c] = "raised"]
            /\ add_local' = [add_local EXCEPT ![c] =
                 [file_model |-> Some(file_model),
                  raised |-> "ValueError: File already exists"]]
       ELSE /\ add_pc' = [add_pc EXCEPT ![c] = "checked"]
            /\ add_local' = [add_local EXCEPT ![c] =
                 [file_model |-> Some(file_model), raised |-> ""]]
  /\ UNCHANGED <<files, file_ids, last_call, chat_vars, token_cost, budget_vars>>

\* concurrent add_file, second statement: the insert; then the conversion
AddFileSave(c) ==
  /\ add_pc[c] = "checked"
  /\ LET file_model == add_local[c].file_model[1]
         back == file_to_pydantic(pydantic_to_file(file_model))
     IN /\ files' = SaveRow(files, pydantic_to_file(file_model))
        /\ file_ids' = SaveIds(file_ids, 1)
        /\ add_pc' = [add_pc EXCEPT ![c] =
             IF back.raised = "" THEN "returned" ELSE "raised"]
        /\ add_local' = [add_local EXCEPT ![c].raised = back.raised]
  /\ UNCHANGED <<last_call, chat_vars, token_cost, budget_vars>>

NoAdd == [file_model |-> None, raised |-> ""]

\* ------------------------------------------- the budgeting routines ---
NoArgs ==
  [fn |-> "", chat_history |-> <<>>, tokens_limit |-> 0, human_only |-> FALSE,
   docs |-> <<>>, docs_limit |-> 0]

NoResult == [fn |-> "", raised |-> "", text |-> "", docs |-> <<>>]

SeqsUpTo(S, n) == UNION {[1 .. k -> S] : k \in 0 .. n}

MessageTexts ==
  {"Human: " \o p[1] : p \in HistoryPairs} \cup {ai_name \o ": " \o p[2] : p \in HistoryPairs}

\* token counters: any cost 0 .. MaxCost on the texts the routine counts
MessageCosts ==
  {[s \in TokenTexts |-> IF s \in MessageTexts THEN c[s] ELSE 0] :
     c \in [MessageTexts -> 0 .. MaxCost]}
DocCosts ==
  {[s \in TokenTexts |-> IF s \in DocTexts THEN c[s] ELSE 0] :
     c \in [DocTexts -> 0 .. MaxCost]}

FormatArgs ==
  {[NoArgs EXCEPT !.fn = "format_messages", !.chat_history = h,
                  !.tokens_limit = l, !.human_only = b] :
     h \in SeqsUpTo(HistoryPairs, MaxHistory), l \in 0 .. MaxLimit, b \in BOOLEAN}

ReduceArgs ==
  {[NoArgs EXCEPT !.fn = "_reduce_tokens_below_limit", !.docs = d,
                  !.docs_limit = l] :
     d \in SeqsUpTo(DocTexts, MaxDocs), l \in (0 - MaxDeficit) .. MaxLimit}

CallFormatMessages ==
  /\ call.fn = "format_messages"
  /\ result = NoResult
  /\ result' = [NoResult EXCEPT
       !.fn = call.fn,
       !.text = format_messages(call.chat_history, call.tokens_limit,
                                call.human_only)]
  /\ UNCHANGED <<call, token_cost, chat_vars, file_vars>>

CallReduceTokens ==
  /\ call.fn = "_reduce_tokens_below_limit"
  /\ result = NoResult
  /\ LET out == _reduce_tokens_below_limit(call.docs, call.docs_limit)
     IN result' = [NoResult EXCEPT !.fn = call.fn, !.raised = out.raised,
                                   !.docs = out.value]
  /\ UNCHANGED <<call, token_cost, chat_vars, file_vars>>

\* ------------------------------------------------- specifications ------
InitStores ==
  /\ chat_rows = <<>>
  /\ pc = [t \in Turns |-> "idle"]
  /\ turn = [t \in Turns |-> NoTurn]
  /\ sent = [t \in Turns |-> <<>>]
  /\ files = <<>>
  /\ file_ids = <<>>
  /\ last_call = NoCall
  /\ add_pc = [c \in Adders |-> "idle"]
  /\ add_local = [c \in Adders |-> NoAdd]
  /\ result = NoResult

Init ==
  /\ InitStores
  /\ token_cost = [s \in TokenTexts |-> 1]
  /\ call = NoArgs

InitBudget ==
  /\ InitStores
  /\ \/ call \in FormatArgs /\ token_cost \in MessageCosts
     \/ call \in ReduceArgs /\ token_cost \in DocCosts

Next ==
  \E t \in Turns :
    \/ HandleUpdate(t)
    \/ HandleVoice(t)
    \/ ModelCallReturns(t)
    \/ ModelCallFails(t)
    \/ TurnCancelled(t)
    \/ AddMessageSelect(t)
    \/ AddMessageCreate(t)
    \/ ReplyReturns(t)
    \/ ReplyFails(t)
    \/ ReplyCancelled(t)
    \/ LastReplyReturns(t)
    \/ LastReplyRaises(t)

Spec == Init /\ [][Next]_vars

NextSingleWriter ==
  \E t \in Turns :
    \/ HandleUpdate(t)
    \/ HandleVoice(t)
    \/ ModelCallReturns(t)
    \/ ModelCallFails(t)
    \/ TurnCancelled(t)
    \/ AddMessageSelectAlone(t)
    \/ AddMessageCreate(t)
    \/ ReplyReturns(t)
    \/ ReplyFails(t)
    \/ ReplyCancelled(t)
    \/ LastReplyReturns(t)
    \/ LastReplyRaises(t)

SpecSingleWriter == Init /\ [][NextSingleWriter]_vars
NextFiles ==
  \/ \E file_model \in FileModels : add_file(file_model)
  \/ \E filename \in Filenames : get_file_by_name(filename)
  \/ \E filename \in Filenames : delete_file(filename)
  \/ delete_all
  \/ get_all
  \/ \E rows \in Batches : insert_many(rows)
  \/ \E filename \in Filenames, kwargs \in UpdateKeywords :
       update_file(filename, kwargs)

SpecFiles == Init /\ [][NextFiles]_vars

NextFilesRace == \E c \in Adders : AddFileSelect(c) \/ AddFileSave(c)

SpecFilesRace == Init /\ [][NextFilesRace]_vars

NextBudget == CallFormatMessages \/ CallReduceTokens

SpecBudget == InitBudget /\ [][NextBudget]_vars

\* =============================================================== claims =
\* rows of one namespace, in insertion order
RowsSeq(rows, ns) == SelectSeq(rows, LAMBDA r : r.namespace = ns)

\* the turns whose add_message inserts in this step
Creating(t) == pc[t] = "create" /\ pc'[t] = "reply"

\* C1: after N completed appends to a namespace (callers' SELECT and INSERT
\* interleaving freely) its rows carry exactly the numbers 0 .. N-1, no
\* duplicate and no gap.  Stated of Spec, where the code breaks it.
C1_ConcurrentNumbering ==
  \A ns \in Namespaces :
    SeqNumbersOf(chat_rows, ns) = 0 .. (Cardinality(RowsOf(chat_rows, ns)) - 1)

\* C2: with a single writer per namespace the numbers of a namespace's k
\* rows are exactly 0 .. k-1, and the number add_message is about to insert
\* is 0 for a namespace without rows and 1 + the current maximum otherwise.
C2_SingleWriterNumbering ==
  /\ \A ns \in Namespaces :
       LET k == Cardinality(RowsOf(chat_rows, ns))
       IN /\ \A n \in 0 .. (k - 1) :
               \E i \in RowsOf(chat_rows, ns) : chat_rows[i].sequence_number = n
          /\ \A i \in RowsOf(chat_rows, ns) :
               chat_rows[i].sequence_number \in 0 .. (k - 1)
  /\ \A t \in Turns :
       pc[t] = "create" =>
         LET mine == {chat_rows[i].sequence_number :
                        i \in RowsOf(chat_rows, turn[t].user_id)}
         IN IF mine = {} THEN turn[t].sequence_number = 0
            ELSE /\ turn[t].sequence_number - 1 \in mine
                 /\ \A n \in mine : n < turn[t].sequence_number

\* C2 witness: a second append to a namespace stands before its INSERT with
\* number 1
C2_Witness ==
  \E t \in Turns :
    /\ pc[t] = "create"
    /\ turn[t].sequence_number = 1
    /\ Cardinality(RowsOf(chat_rows, turn[t].user_id)) = 1

\* C3: with a single writer per namespace the log is append-only and
\* ordered: a step changes what retrieve_all_messages(ns) returns only by an
\* add_message on ns, and then from S to S followed by the one pair
\* (human, assistant) of that call; the order of retrieval is determined.
C3_AppendOnlyOrdered ==
  /\ [](\A ns \in Namespaces :
          Cardinality(retrieve_all_messages_results(chat_rows, ns)) = 1)
  /\ [][\A ns \in Namespaces :
          LET S == retrieve_all_messages(chat_rows, ns)
              after == retrieve_all_messages(chat_rows', ns)
              appended == {t \in Turns : Creating(t) /\ turn[t].user_id = ns}
          IN IF appended = {} THEN after = S
             ELSE \E t \in appended :
                    after = Append(S, <<turn[t].user_message, turn[t].ai_response>>)
       ]_vars

\* C3 witness: a namespace whose log holds two different pairs, the earlier
\* one first
C3_Witness ==
  \E ns \in Namespaces :
    /\ Len(RowsSeq(chat_rows, ns)) = 2
    /\ RowsSeq(chat_rows, ns)[1].human_message # RowsSeq(chat_rows, ns)[2].human_message
    /\ retrieve_all_messages(chat_rows, ns) =
         <<<<RowsSeq(chat_rows, ns)[1].human_message,
             RowsSeq(chat_rows, ns)[1].ai_message>>,
           <<RowsSeq(chat_rows, ns)[2].human_message,
             RowsSeq(chat_rows, ns)[2].ai_message>>>>

\* C4: namespaces are isolated: an add_message on namespace B leaves the
\* rows (numbers included) and the retrieval of every other namespace
\* unchanged; a namespace with one row has number 0 there and returns
\* exactly that one pair.
C4_NamespacesIsolated ==
  /\ [](\A ns \in Namespaces :
          Cardinality(RowsOf(chat_rows, ns)) = 1 =>
            /\ RowsSeq(chat_rows, ns)[1].sequence_number = 0
            /\ retrieve_all_messages_results(chat_rows, ns) =
                 {<<<<RowsSeq(chat_rows, ns)[1].human_message,
                      RowsSeq(chat_rows, ns)[1].ai_message>>>>})
  /\ [][\A t \in Turns :
          Creating(t) =>
            \A other \in Namespaces \ {turn[t].user_id} :
              /\ RowsSeq(chat_rows', other) = RowsSeq(chat_rows, other)
              /\ retrieve_all_messages_results(chat_rows', other) =
                   retrieve_all_messages_results(chat_rows, other)
       ]_vars

\* C4 witness: one append to each of the two namespaces
C4_Witness ==
  /\ Len(RowsSeq(chat_rows, "u1")) = 1
  /\ Len(RowsSeq(chat_rows, "u2")) = 1
  /\ chat_rows[1].namespace = "u1"

\* the turn's add_message has inserted: its response, handed to reply_text
\* right after, is the first text the turn sent
Persisted(t) == sent[t] # <<>> /\ sent[t][1] \in AiTexts

\* C5: a turn that fails or is abandoned before persistence (history read,
\* retrieval, model call, cancellation while awaiting the model) appends
\* nothing: the step in which it fails or is abandoned, and the end of its
\* handler after that, leave the log as it was, and the log holds exactly
\* one row per turn that got as far as its insert.
C5_FailedTurnAppendsNothing ==
  /\ [](Len(chat_rows) = Cardinality({t \in Turns : Persisted(t)}))
  /\ [](\A t \in Turns : Persisted(t) => pc[t] \notin {"idle", "awaiting", "add_message", "create"})
  /\ [][\A t \in Turns :
          (/\ pc[t] \in {"idle", "awaiting", "add_message", "create"}
           /\ pc'[t] \in {"apologising", "declining", "propagated", "cancelled"})
            => /\ chat_rows' = chat_rows
               /\ ~Persisted(t)']_vars
  /\ [][\A t \in Turns :
          (pc[t] \in {"apologising", "declining"} /\ pc'[t] # pc[t])
            => /\ pc'[t] \in {"failed", "declined", "propagated"}
               /\ chat_rows' = chat_rows
               /\ sent'[t] = sent[t]]_vars

\* C5 witness: a turn failed at the model call while the log holds the row
\* of another turn
C5_Witness ==
  /\ chat_rows # <<>>
  /\ \E t \in Turns : pc[t] = "failed" /\ turn[t].raised = "chain.arun"

\* C6: add_file with a filename that already has a record fails with the
\* duplicate error ("File already exists"), inserts nothing and leaves every
\* record as it was.
C6_DuplicateAddFails ==
  [][(/\ last_call'.op = "add_file"
      /\ WhereFilename(files, last_call'.args[1].filename) # {})
       => /\ last_call'.raised = "ValueError: File already exists"
          /\ last_call'.returned = None
          /\ files' = files
    ]_vars

\* C6 witness: a refused add_file over a registry of two records
C6_Witness ==
  /\ last_call.op = "add_file"
  /\ last_call.raised = "ValueError: File already exists"
  /\ Len(files) = 2

\* C7: in every state reachable by FileDBManager calls from an empty
\* registry no two records have the same filename.  The code breaks it.
C7_FilenamesUnique ==
  \A i, j \in 1 .. Len(files) : i # j => files[i].filename # files[j].filename

\* C8: when add_file calls for the same filename run concurrently at most
\* one of them succeeds and the registry ends with at most one record for
\* that filename.  The code breaks it.
C8_OneConcurrentAddWins ==
  \A f \in Filenames :
    /\ Cardinality(WhereFilename(files, f)) <= 1
    /\ Cardinality({c \in Adders : /\ add_pc[c] = "returned"
                                   /\ add_local[c].file_model[1].filename = f}) <= 1

\* the cost the counter gives the first passage
FirstCost == get_num_tokens(call.docs[1])

Reduced == result.fn = "_reduce_tokens_below_limit" /\ result.raised = ""

\* C9 as claimed, over the budgets D >= 0 of its example: a non-empty input
\* never comes back empty; a first passage over the budget comes back alone.
\* The code breaks it.
C9_NeverEmptiesNonEmpty ==
  (Reduced /\ call.docs # <<>> /\ call.docs_limit >= 0) =>
    /\ result.docs # <<>>
    /\ FirstCost > call.docs_limit => result.docs = <<call.docs[1]>>

\* C9 amended: for a budget D >= 0 and a non-empty input the routine
\* returns normally, and the result is empty exactly when the first passage
\* alone costs more than D (one passage of cost 2 with D = 1 gives the
\* empty list).
C9_EmptiesWhenFirstOverBudget ==
  (/\ result.fn = "_reduce_tokens_below_limit"
   /\ call.docs # <<>>
   /\ call.docs_limit >= 0)
    => /\ result.raised = ""
       /\ (result.docs = <<>>) <=> (FirstCost > call.docs_limit)

\* C9 witness: a single passage over a non-negative budget, returned as the
\* empty list
C9_Witness ==
  /\ Reduced
  /\ Len(call.docs) = 1
  /\ call.docs_limit >= 0
  /\ FirstCost > call.docs_limit
  /\ result.docs = <<>>

\* the cost of pair i of the history under test
PairCost(i) ==
  get_num_tokens("Human: " \o call.chat_history[i][1])
    + (IF call.human_only THEN 0
       ELSE get_num_tokens(ai_name \o ": " \o call.chat_history[i][2]))

RECURSIVE PrefixCost(_)
PrefixCost(k) == IF k = 0 THEN 0 ELSE PrefixCost(k - 1) + PairCost(k)

\* the longest prefix whose cumulative cost is within the budget
LongestFit ==
  CHOOSE k \in 0 .. Len(call.chat_history) :
    /\ PrefixCost(k) <= call.tokens_limit
    /\ \A j \in 0 .. Len(call.chat_history) :
         PrefixCost(j) <= call.tokens_limit => j <= k

\* the pairs before the first pair that overflows
BeforeFirstOverflow ==
  CHOOSE k \in 0 .. Len(call.chat_history) :
    /\ \A j \in 1 .. k : PrefixCost(j) <= call.tokens_limit
    /\ k < Len(call.chat_history) => PrefixCost(k + 1) > call.tokens_limit

\* the first k pairs, oldest first, blank lines between
Rendered(k) ==
  Join([i \in 1 .. k |->
          IF call.human_only THEN "Human: " \o call.chat_history[i][1]
          ELSE "Human: " \o call.chat_history[i][1] \o "\n\n"
                 \o ai_name \o ": " \o call.chat_history[i][2]], "\n\n")

\* C10: format_messages stops at the first overflow from the oldest pair:
\* its text is that of the longest prefix of the history whose cumulative
\* cost is <= L, in original order; that prefix ends before the first
\* overflowing pair, and its cost never exceeds L.
C10_StopAtFirstOverflow ==
  result.fn = "format_messages" =>
    /\ result.text = Rendered(LongestFit)
    /\ LongestFit = BeforeFirstOverflow
    /\ PrefixCost(LongestFit) <= call.tokens_limit

\* C10 witness: three pairs, the second overflows, the third would have
\* fitted after the first; only the first is included
C10_Witness ==
  /\ result.fn = "format_messages"
  /\ Len(call.chat_history) = 3
  /\ PairCost(1) + PairCost(2) > call.tokens_limit
  /\ PairCost(1) + PairCost(3) <= call.tokens_limit
  /\ PairCost(3) > 0
  /\ result.text = Rendered(1)

\* C11 as claimed: with the budget L = 0 format_messages returns the empty
\* string for every history and every counter with costs >= 0, in both
\* human_only modes. The code breaks it: a pair of cost 0 does not exceed 0.
C11_ZeroBudgetAlwaysEmpty ==
  (result.fn = "format_messages" /\ call.tokens_limit = 0) => result.text = ""

\* the number of leading pairs of cost 0
LeadingFree ==
  CHOOSE k \in 0 .. Len(call.chat_history) :
    /\ \A j \in 1 .. k : PairCost(j) = 0
    /\ k < Len(call.chat_history) => PairCost(k + 1) > 0

\* C11 amended: with the budget L = 0 format_messages returns the empty
\* string exactly when the history is empty or its first pair has a
\* positive cost; its text is that of the leading pairs of cost 0.
C11_ZeroBudgetEmptyUnlessFree ==
  (result.fn = "format_messages" /\ call.tokens_limit = 0) =>
    /\ (result.text = "") <=>
         (call.chat_history = <<>> \/ PairCost(1) > 0)
    /\ result.text = Rendered(LeadingFree)

\* C11 witness: budget 0, a history of three pairs whose first pair has a
\* positive cost, and the empty string returned
C11_Witness ==
  /\ result.fn = "format_messages"
  /\ call.tokens_limit = 0
  /\ Len(call.chat_history) = 3
  /\ PairCost(1) > 0
  /\ result.text = ""

\* the total cost of the first k passages of the input under test
RECURSIVE DocsPrefixCost(_)
DocsPrefixCost(k) ==
  IF k = 0 THEN 0 ELSE DocsPrefixCost(k - 1) + get_num_tokens(call.docs[k])

\* C12: _reduce_tokens_below_limit trims a suffix: whatever it returns is a
\* prefix of the input in the original order, and for a budget D >= 0 it
\* returns normally the longest prefix whose total cost is <= D (removal
\* stops at the first prefix that fits, so no longer prefix fits).
C12_LongestPrefixWithinBudget ==
  result.fn = "_reduce_tokens_below_limit" =>
    /\ result.raised = "" =>
         /\ Len(result.docs) <= Len(call.docs)
         /\ result.docs = SubSeq(call.docs, 1, Len(result.docs))
    /\ call.docs_limit >= 0 =>
         /\ result.raised = ""
         /\ DocsPrefixCost(Len(result.docs)) <= call.docs_limit
         /\ \A k \in 0 .. Len(call.docs) :
              DocsPrefixCost(k) <= call.docs_limit => k <= Len(result.docs)

\* C12 witness: four passages of equal cost 2 and the budget 5 (the
\* example [30, 30, 30, 30] with D = 65 scaled): the first two are kept
C12_Witness ==
  /\ Reduced
  /\ Len(call.docs) = 4
  /\ \A k \in 1 .. 4 : get_num_tokens(call.docs[k]) = 2
  /\ call.docs_limit = 5
  /\ result.docs = SubSeq(call.docs, 1, 2)

\* the rows of the registry that carry another filename, in order
OtherRows(rows, name) == SelectSeq(rows, LAMBDA r : r.filename # name)

\* C13 as claimed: delete_file on a filename without a record fails with
\* the not-found error and leaves the registry unchanged; on a filename
\* with a record it removes the record, leaves every other record
\* unchanged, returns a count that is 0 or 1, and get_file_by_name of that
\* filename then returns None. The code breaks it for a stored record
\* without file_bytes (C17) and for a duplicated filename (C7).
C13_DeleteRemovesTheRecord ==
  [][last_call'.op = "delete_file" =>
       LET filename == last_call'.args[1]
       IN IF \A i \in 1 .. Len(files) : files[i].filename # filename
          THEN /\ last_call'.raised = "ValueError: Invalid collection/file"
               /\ files' = files
          ELSE /\ last_call'.raised = ""
               /\ last_call'.returned \in {Some(0), Some(1)}
               /\ files' = OtherRows(files, filename)
               /\ GetFileByName(files', filename) = [raised |-> "", value |-> None]
    ]_vars

\* C14: delete_all removes every record and returns the number of records
\* that existed before it; from then on, as long as no call inserts
\* (add_file, insert_many), the registry stays empty and a get_all returns
\* the empty sequence.
C14_DeleteAllEmpties ==
  /\ [][last_call'.op = "delete_all" =>
          /\ files' = <<>>
          /\ last_call'.raised = ""
          /\ last_call'.returned = Some(Len(files))]_vars
  /\ [][(files = <<>> /\ last_call'.op \notin {"add_file", "insert_many"}) =>
          files' = <<>>]_vars
  /\ [][(last_call'.op = "get_all"
           /\ (files = <<>> \/ last_call.op = "delete_all")) =>
          /\ last_call'.raised = ""
          /\ last_call'.returned = Some(<<>>)]_vars

\* C14 witness: delete_all has just removed two records and returned 2
C14_Witness ==
  /\ last_call.op = "delete_all"
  /\ last_call.returned = Some(2)
  /\ files = <<>>

\* namespace ns holds no message
EmptyNamespace(ns) == \A i \in 1 .. Len(chat_rows) : chat_rows[i].namespace # ns

\* C15: retrieve_all_messages on a namespace without messages has exactly
\* one result, the empty sequence (an empty result is not an error), also
\* while other namespaces hold messages; a turn that reads such a history
\* hands the model an empty conversation.
C15_EmptyNamespaceReadsEmpty ==
  /\ [](\A ns \in Namespaces :
          EmptyNamespace(ns) => retrieve_all_messages_results(chat_rows, ns) = {<<>>})
  /\ [][\A t \in Turns :
          (pc[t] = "idle" /\ pc'[t] = "awaiting" /\ EmptyNamespace(turn'[t].user_id))
            => turn'[t].chain_inputs.conversation = ""]_vars

\* C15 witness: u1 holds a message, u2 holds none, and a turn of u2 has
\* read its history and awaits the model with an empty conversation
C15_Witness ==
  /\ chat_rows # <<>>
  /\ EmptyNamespace("u2")
  /\ \E t \in Turns :
       /\ pc[t] = "awaiting"
       /\ turn[t].user_id = "u2"
       /\ turn[t].chain_inputs.conversation = ""

\* C16 as claimed: update_file on a filename without a record returns 0
\* and leaves the registry unchanged; on a filename with a record it
\* replaces exactly the named fields of the record(s) carrying that filename
\* and leaves the other fields and every record of another filename
\* unchanged. The code breaks it when the field named is filename, when a
\* keyword is no column and when there is no keyword.
C16_UpdateReplacesAnyNamedField ==
  [][last_call'.op = "update_file" =>
       LET filename == last_call'.args[1]
           kwargs == last_call'.args[2]
       IN /\ last_call'.raised = ""
          /\ Len(files') = Len(files)
          /\ (\A i \in 1 .. Len(files) : files[i].filename # filename) =>
               /\ last_call'.returned = Some(0)
               /\ files' = files
          /\ \A i \in 1 .. Len(files) :
               IF files[i].filename = filename
               THEN /\ \A f \in FileFields \cap DOMAIN kwargs : files'[i][f] = kwargs[f]
                    /\ \A f \in FileFields \ DOMAIN kwargs : files'[i][f] = files[i][f]
               ELSE files'[i] = files[i]
    ]_vars

\* the records of the registry with their ids, as a set
Keyed(rows, ids) == {<<ids[i], rows[i]>> : i \in 1 .. Len(rows)}

\* C16 amended: update_file changes the registry only when its keywords
\* name one or more columns of the record other than filename. Then, on a
\* filename without a record it returns 0 and leaves the registry
\* unchanged; on a filename with a record it replaces exactly the named
\* fields of the record(s) carrying that filename with the given values
\* and leaves the other fields and every record of another filename
\* unchanged; it raises only when the keyword id would give two records one
\* id (IntegrityError, registry unchanged). Without the keyword id every
\* record stays in place with its id; with it the one record of that
\* filename takes the given id and the registry reads back in the order of
\* the ids. Every other call raises and leaves the registry unchanged:
\* TypeError when filename is among the keywords, ValueError when a keyword
\* is no column, the database's error when there is no keyword.
C16_UpdateReplacesNamedFields ==
  [][last_call'.op = "update_file" =>
       LET filename == last_call'.args[1]
           kwargs == last_call'.args[2]
           named == {f \in FileFields : f \in DOMAIN kwargs}
           unknown == {k \in DOMAIN kwargs : k \notin FileFields \cup {"id"}}
           targets == {i \in 1 .. Len(files) : files[i].filename = filename}
           clash ==
             /\ "id" \in DOMAIN kwargs
             /\ \/ Cardinality(targets) > 1
                \/ /\ targets # {}
                   /\ \E j \in 1 .. Len(files) :
                        j \notin targets /\ file_ids[j] = kwargs.id
           changed(row) ==
             [f \in FileFields |-> IF f \in named THEN kwargs[f] ELSE row[f]]
       IN IF "filename" \in named \/ unknown # {} \/ DOMAIN kwargs = {} \/ clash
          THEN /\ files' = files
               /\ file_ids' = file_ids
               /\ last_call'.returned = None
               /\ last_call'.raised =
                    (IF "filename" \in named THEN "TypeError"
                     ELSE IF unknown # {} THEN "ValueError: Unrecognized field name"
                     ELSE IF DOMAIN kwargs = {} THEN "OperationalError"
                     ELSE "IntegrityError")
          ELSE
          /\ last_call'.raised = ""
          /\ last_call'.returned = Some(Cardinality(targets))
          /\ Len(files') = Len(files)
          /\ targets = {} => (files' = files /\ file_ids' = file_ids)
          /\ Keyed(files', file_ids') =
               {<<IF i \in targets /\ "id" \in DOMAIN kwargs THEN kwargs.id
                  ELSE file_ids[i],
                  IF i \in targets THEN changed(files[i]) ELSE files[i]>> :
                  i \in 1 .. Len(files)}
          /\ \A i, j \in 1 .. Len(file_ids') : i < j => file_ids'[i] < file_ids'[j]
          /\ "id" \notin DOMAIN kwargs =>
               /\ file_ids' = file_ids
               /\ \A i \in 1 .. Len(files) :
                    files'[i] = (IF i \in targets THEN changed(files[i]) ELSE files[i])
    ]_vars

\* C16 witness: two records; update_file has replaced the description of
\* one (count 1) while the other kept its own, and that record carries
\* the id 3 that update_file gave it and reads back second
C16_Witness ==
  /\ last_call.op = "update_file"
  /\ last_call.returned = Some(1)
  /\ "description" \in DOMAIN last_call.args[2]
  /\ Len(files) = 2
  /\ file_ids = <<2, 3>>
  /\ files[2].filename = last_call.args[1]
  /\ files[2].description = last_call.args[2].description
  /\ files[1].filename # last_call.args[1]
  /\ files[1].description # last_call.args[2].description

\* C17 as claimed: add_file has exactly two outcomes: it returns the added
\* record, the record is stored (once more than before) and a following
\* get_file_by_name of that filename returns a record equal to the one
\* added; or it raises and the registry is unchanged. It never raises after
\* the record has been stored, also when optional fields are absent. The
\* code breaks it for a record without file_bytes.
C17_AddFileReturnsOrLeavesUnchanged ==
  [][last_call'.op = "add_file" =>
       LET file_model == last_call'.args[1]
       IN \/ /\ last_call'.raised = ""
             /\ last_call'.returned = Some(file_model)
             /\ files' = Append(files, file_model)
             /\ GetFileByName(files', file_model.filename)
                  = [raised |-> "", value |-> Some(file_model)]
          \/ /\ last_call'.raised # ""
             /\ files' = files
    ]_vars

\* C18 as claimed: _reduce_tokens_below_limit returns normally for every
\* input, the empty list and budgets D < 0 included, and on return the
\* total cost of what it returns is <= D or the result is empty. The code
\* breaks it for D < 0: the index runs below 0.
C18_ReduceTerminatesNormally ==
  result.fn = "_reduce_tokens_below_limit" =>
    /\ result.raised = ""
    /\ \/ result.docs = <<>>
       \/ Sum([k \in 1 .. Len(result.docs) |-> get_num_tokens(result.docs[k])])
            <= call.docs_limit

\* the turn's place in read history -> model response -> append -> reply
Stage(p) ==
  CASE p = "idle" -> 0
    [] p = "awaiting" -> 1
    [] p = "add_message" -> 2
    [] p = "create" -> 3
    [] p = "reply" -> 4
    [] p = "done" -> 5
    [] OTHER -> 6

\* the pair of turn t as stored
PairOf(t) ==
  [namespace |-> turn[t].user_id, human_message |-> turn[t].user_message,
   ai_message |-> turn[t].ai_response]

StoredPair(row) ==
  [namespace |-> row.namespace, human_message |-> row.human_message,
   ai_message |-> row.ai_message]

\* C19: a successful turn goes through read history -> model response ->
\* append -> reply without skipping a step; its append adds exactly one
\* row, to the turn's own namespace, holding that turn's query and that
\* turn's response, and nothing else writes the conversation store: the
\* stored pairs are, one for one, the pairs of the turns that got as far as
\* their insert, however turns of different conversations interleave.
C19_TurnStoresItsOwnPair ==
  /\ [][\A t \in Turns :
          pc'[t] # pc[t] =>
            \/ pc'[t] \in {"apologising", "declining", "failed", "propagated",
                          "cancelled", "declined"}
            \/ Stage(pc'[t]) = Stage(pc[t]) + 1]_vars
  /\ [][\A t \in Turns :
          (pc[t] = "create" /\ pc'[t] = "reply") =>
            /\ Len(chat_rows') = Len(chat_rows) + 1
            /\ SubSeq(chat_rows', 1, Len(chat_rows)) = chat_rows
            /\ StoredPair(chat_rows'[Len(chat_rows')]) = PairOf(t)
            /\ turn'[t] = turn[t]
            /\ sent'[t] = <<turn[t].ai_response>>]_vars
  /\ [][chat_rows' # chat_rows =>
          \E t \in Turns : pc[t] = "create" /\ pc'[t] = "reply"]_vars
  /\ [](\A t \in Turns :
          /\ pc[t] = "awaiting" => turn[t].chain_inputs.question = turn[t].user_message
          /\ pc[t] = "reply" =>
               /\ sent[t] = <<turn[t].ai_response>>
               /\ \E i \in 1 .. Len(chat_rows) : StoredPair(chat_rows[i]) = PairOf(t)
          /\ pc[t] = "done" =>
               /\ Len(sent[t]) = 1
               /\ \E i \in 1 .. Len(chat_rows) : chat_rows[i].ai_message = sent[t][1])
  /\ [](\A a \in AiTexts :
          Cardinality({i \in 1 .. Len(chat_rows) : chat_rows[i].ai_message = a})
            = Cardinality({t \in Turns : Persisted(t) /\ sent[t][1] = a}))

\* C19 witness: two turns of different conversations, with different
\* queries and different responses, are both done; two rows are stored and
\* each turn has replied the response of one of them
C19_Witness ==
  /\ Len(chat_rows) = 2
  /\ chat_rows[1].namespace # chat_rows[2].namespace
  /\ chat_rows[1].human_message # chat_rows[2].human_message
  /\ chat_rows[1].ai_message # chat_rows[2].ai_message
  /\ \E t, u \in Turns :
       /\ pc[t] = "done" /\ pc[u] = "done"
       /\ sent[u] = <<chat_rows[1].ai_message>>
       /\ sent[t] = <<chat_rows[2].ai_message>>

\* the failures of generate_response: the history read, the retrieval, the
\* model call, the persistence
GenerationFailures ==
  {"retrieve_all_messages", "query_data", "_reduce_tokens_below_limit",
   "chain.arun", "add_message"}

\* the texts the handlers reply
ReplyTexts == AiTexts \cup {Apology, NoDownload, NotUnderstood}

\* C20 as claimed: every failure while a response is generated (history
\* read, retrieval, model call, persistence) results in the fixed apology
\* being sent and the handler ending without an error of its own: the
\* handler waits for the reply of the apology or has ended normally. The
\* code breaks it when the reply of the apology raises.
C20_FailureAlwaysApologised ==
  \A t \in Turns :
    turn[t].raised \in GenerationFailures =>
      /\ pc[t] \in {"apologising", "failed"}
      /\ sent[t] = <<Apology>>

\* C20 amended: every failure while a response is generated is caught: the
\* fixed apology, never the error's text, is handed to reply_text as the
\* turn's only message and nothing is stored; the handler then ends
\* normally, unless that reply itself raises or is cancelled, whose
\* exception leaves the handler. Nothing but a model response, the apology
\* or a voice notice is ever replied.
C20_FailureRepliesApology ==
  /\ [](\A t \in Turns :
          /\ turn[t].raised \in GenerationFailures =>
               /\ pc[t] \in {"apologising", "failed", "propagated"}
               /\ sent[t] = <<Apology>>
          /\ pc[t] \in {"apologising", "failed"} =>
               /\ turn[t].raised \in GenerationFailures \cup {"reply_text"}
               /\ sent[t][Len(sent[t])] = Apology
          /\ \A k \in 1 .. Len(sent[t]) :
               /\ sent[t][k] \in ReplyTexts
               /\ sent[t][k] # turn[t].raised)
  /\ [][\A t \in Turns :
          (turn'[t].raised # turn[t].raised /\ turn'[t].raised \in GenerationFailures)
            => /\ sent[t] = <<>>
               /\ sent'[t] = <<Apology>>
               /\ pc'[t] = "apologising"
               /\ chat_rows' = chat_rows]_vars
  /\ [][\A t \in Turns :
          (pc[t] = "apologising" /\ pc'[t] # pc[t])
            => /\ pc'[t] \in {"failed", "propagated"}
               /\ turn'[t].raised = turn[t].raised
               /\ sent'[t] = sent[t]]_vars

\* C20 witness: one turn failed in the persistence and ended normally with
\* the apology replied; another failed in the model call and the reply of
\* its apology raised
C20_Witness ==
  \E t, u \in Turns :
    /\ pc[t] = "failed" /\ turn[t].raised = "add_message"
    /\ pc[u] = "propagated" /\ turn[u].raised = "chain.arun"
    /\ sent[t] = <<Apology>> /\ sent[u] = <<Apology>>
====
